---- MODULE Spec2Model ----
(***************************************************************************)
(* turnkey-copilot: the rule-based analysis engine (analyzeConfig,         *)
(* analyzePolicy, analyzeSimplifiedPolicy, analyzeTransaction), the        *)
(* document classifier and report loop of checkConfig, and the            *)
(* explanation enricher generateExplanation.                               *)
(*                                                                         *)
(* Two specifications share the variables:                                 *)
(*   Spec      one run of the CLI command check <file> [--verbose];        *)
(*   SpecEval  a caller (the test suite, a library user) invoking one      *)
(*             evaluator directly, possibly more than once.                *)
(*                                                                         *)
(* JSON values are tagged records; strings are TLA+ strings, on which      *)
(* Len, SubSeq and \o work character by character. A TLA+ string cannot    *)
(* hold a backquote: the Markdown fence of three backquotes in the         *)
(* suggestion texts is written ~~~ and a single backquote is written ~.    *)
(***************************************************************************)
EXTENDS Integers, Sequences, FiniteSets, TLC

\* ---------------------------------------------------------------- bounds
\* Longest signing_keys list in a generated policy.
MaxKeys == 2
\* Longest allowed_activities list in a generated policy.
MaxActivities == 2
\* Largest value the wall clock (Date.now()) takes.
MaxClock == 2
\* Most invocations of one evaluator on one document by a direct caller.
MaxRuns == 2

\* ------------------------------------------------------------ JSON values
\* A key the document does not have (JavaScript's undefined on access).
ABSENT == [t |-> "absent"]
Null == [t |-> "null"]
Bool(b) == [t |-> "bool", b |-> b]
Num(n) == [t |-> "num", n |-> n]
Str(s) == [t |-> "str", s |-> s]
List(l) == [t |-> "list", l |-> l]
Obj(o) == [t |-> "obj", o |-> o]

IsStr(v) == v.t = "str"
IsList(v) == v.t = "list"
IsObj(v) == v.t = "obj"
\* v is undefined or null: any property access on it is a TypeError.
Nullish(v) == v.t \in {"absent", "null"}

\* JavaScript truthiness, as !x and x && ... use it.
Truthy(v) ==
    CASE v.t = "absent" -> FALSE
      [] v.t = "null" -> FALSE
      [] v.t = "bool" -> v.b
      [] v.t = "num" -> v.n # 0
      [] v.t = "str" -> v.s # ""
      [] OTHER -> TRUE

\* 'k' in data: the document has the key, whatever its value.
HasKey(data, k) == data[k] # ABSENT

\* v.k for a non-nullish v: the member of an object, undefined on anything else.
Get(v, k) == IF IsObj(v) /\ k \in DOMAIN v.o THEN v.o[k] ELSE ABSENT

\* v.length for a non-nullish v: strings and arrays have one, the rest undefined.
HasLength(v) == IsStr(v) \/ IsList(v)
Length(v) == IF IsStr(v) THEN Len(v.s) ELSE Len(v.l)

\* String.prototype.startsWith and String.prototype.includes.
StartsWith(s, p) == Len(s) >= Len(p) /\ SubSeq(s, 1, Len(p)) = p
StrIncludes(s, p) == \E k \in 1..(Len(s) - Len(p) + 1) : SubSeq(s, k, k + Len(p) - 1) = p

\* v.includes(p) where defined: substring on a string, membership on an array.
HasIncludes(v) == IsStr(v) \/ IsList(v)
Includes(v, p) ==
    IF IsStr(v) THEN StrIncludes(v.s, p)
    ELSE \E k \in 1..Len(v.l) : v.l[k] = Str(p)

\* String(v), as a template literal or string concatenation converts a value;
\* an array converts to its elements joined by commas, null elements as "".
RECURSIVE ToStr(_)
RECURSIVE Join(_, _)
Join(l, k) ==
    IF k > Len(l) THEN ""
    ELSE (IF Nullish(l[k]) THEN "" ELSE ToStr(l[k]))
         \o (IF k < Len(l) THEN "," ELSE "") \o Join(l, k + 1)
ToStr(v) ==
    CASE v.t = "absent" -> "undefined"
      [] v.t = "null" -> "null"
      [] v.t = "bool" -> (IF v.b THEN "true" ELSE "false")
      [] v.t = "num" -> ToString(v.n)
      [] v.t = "str" -> v.s
      [] v.t = "list" -> Join(v.l, 1)
      [] OTHER -> "[object Object]"

\* The decimal digits, and Number(s) for a string of digits.
DigitValue(c) ==
    CASE c = "0" -> 0 [] c = "1" -> 1 [] c = "2" -> 2 [] c = "3" -> 3 [] c = "4" -> 4
      [] c = "5" -> 5 [] c = "6" -> 6 [] c = "7" -> 7 [] c = "8" -> 8 [] c = "9" -> 9
      [] OTHER -> -1
RECURSIVE DigitsValue(_, _)
DigitsValue(s, k) ==
    IF k = 0 THEN 0 ELSE 10 * DigitsValue(s, k - 1) + DigitValue(SubSeq(s, k, k))
AllDigits(s) == \A k \in 1..Len(s) : DigitValue(SubSeq(s, k, k)) >= 0

\* v < 1 for a value that is not undefined: the relational operator converts v
\* with ToNumber (null 0, false 0, true 1; a string, and an array or object through
\* its string form, "" 0 and a string of digits its value) and is false on NaN
\* (any other string). Signs, blanks, fractions and exponents inside strings are
\* not generated.
LessThanOne(v) ==
    CASE v.t = "null" -> TRUE
      [] v.t = "bool" -> ~v.b
      [] v.t = "num" -> v.n < 1
      [] OTHER -> AllDigits(ToStr(v)) /\ DigitsValue(ToStr(v), Len(ToStr(v))) < 1

\* --------------------------------------------------------- AnalysisResult
\* The evaluator's two arrays while it runs, and whether a TypeError escaped.
EmptyAcc == [issues |-> <<>>, suggestions |-> <<>>, threw |-> FALSE]

\* Mutant: the suggestion goes to the front of its list.
PushSuggestionFirst(acc, issue, suggestion) ==
    [acc EXCEPT !.issues = Append(@, issue), !.suggestions = <<suggestion>> \o @]

\* issues.push(issue); suggestions.push(suggestion);
Push(acc, issue, suggestion) ==
    [acc EXCEPT !.issues = Append(@, issue), !.suggestions = Append(@, suggestion)]

\* suggestions.push(suggestion) alone.
PushSuggestion(acc, suggestion) ==
    [acc EXCEPT !.suggestions = Append(@, suggestion)]

\* An exception leaves the evaluator: the caller gets no AnalysisResult.
Thrown == [issues |-> <<>>, suggestions |-> <<>>, threw |-> TRUE]

\* ------------------------------------------------- services/config.ts
\* if (!config.org_id) { ... }
CheckOrgId(acc, config) ==
    IF acc.threw THEN Thrown
    ELSE IF ~Truthy(config.org_id)
         THEN Push(acc, "Missing organization ID (org_id)",
                   "Add your Turnkey organization ID to the configuration:\n~~~json\n{\n  \"org_id\": \"your-org-id\",\n  ...\n}\n~~~")
         ELSE acc

\* Mutant: the wallet check made an else-branch of the org_id check.
CheckWalletIdElse(acc, config) ==
    IF acc.threw THEN Thrown
    ELSE IF Len(acc.issues) = 0 /\ ~Truthy(config.wallet_id)
         THEN Push(acc, "Missing wallet ID (wallet_id)",
                   "Add your Turnkey wallet ID to the configuration:\n~~~json\n{\n  \"wallet_id\": \"your-wallet-id\",\n  ...\n}\n~~~")
         ELSE acc

\* if (!config.wallet_id) { ... }
CheckWalletId(acc, config) ==
    IF acc.threw THEN Thrown
    ELSE IF ~Truthy(config.wallet_id)
         THEN Push(acc, "Missing wallet ID (wallet_id)",
                   "Add your Turnkey wallet ID to the configuration:\n~~~json\n{\n  \"wallet_id\": \"your-wallet-id\",\n  ...\n}\n~~~")
         ELSE acc

\* if (!config.api_public_key) { ... }
CheckApiPublicKey(acc, config) ==
    IF acc.threw THEN Thrown
    ELSE IF ~Truthy(config.api_public_key)
         THEN Push(acc, "Missing API public key (api_public_key)",
                   "Add your Turnkey API public key to the configuration:\n~~~json\n{\n  \"api_public_key\": \"your-api-public-key\",\n  ...\n}\n~~~")
         ELSE acc

\* if (!config.api_private_key) { ... }
\* else if (config.api_private_key.length < 20 && !config.api_private_key.includes('$')) { ... }
\* (undefined < 20 is false, so a value without a length never reaches includes).
CheckApiPrivateKey(acc, config) ==
    LET key == config.api_private_key IN
    IF acc.threw THEN Thrown
    ELSE IF ~Truthy(key)
         THEN Push(acc, "Missing API private key (api_private_key)",
                   "Add your Turnkey API private key to the configuration. For security, consider using environment variables:\n~~~json\n{\n  \"api_private_key\": \"${TURNKEY_API_PRIVATE_KEY}\",\n  ...\n}\n~~~")
         ELSE IF HasLength(key) /\ Length(key) < 20 /\ ~Includes(key, "$")
              THEN Push(acc, "API private key appears to be invalid or too short",
                        "Ensure your API private key is correctly formatted. For security, consider using environment variables:\n~~~json\n{\n  \"api_private_key\": \"${TURNKEY_API_PRIVATE_KEY}\",\n  ...\n}\n~~~")
              ELSE acc

\* Mutant: the http:// prefix is left in place.
StripHttpNothing(s) == s

\* config.base_url.replace(/^http:\/\//, '')
StripHttp(s) == IF StartsWith(s, "http://") THEN SubSeq(s, 8, Len(s)) ELSE s

\* if (!config.base_url) { ... } else if (!config.base_url.startsWith('https://')) { ... }
\* (only a string has startsWith: any other truthy value is a TypeError).
CheckBaseUrl(acc, config) ==
    LET url == config.base_url IN
    IF acc.threw THEN Thrown
    ELSE IF ~Truthy(url)
         THEN Push(acc, "Missing base URL (base_url)",
                   "Add the Turnkey API base URL to the configuration:\n~~~json\n{\n  \"base_url\": \"https://api.turnkey.com\",\n  ...\n}\n~~~")
         ELSE IF ~IsStr(url) THEN Thrown
         ELSE IF ~StartsWith(url.s, "https://")
              THEN Push(acc, "Base URL should use HTTPS for security",
                        "Update the base URL to use HTTPS:\n~~~json\n{\n  \"base_url\": \"https://" \o StripHttp(url.s) \o "\",\n  ...\n}\n~~~")
              ELSE acc

\* Mutant: startsWith('TK') in place of includes('TK').
CheckPublicKeyFormatPrefix(acc, config) ==
    LET pub == config.api_public_key IN
    IF acc.threw THEN Thrown
    ELSE IF Truthy(pub) /\ Truthy(config.api_private_key)
         THEN IF ~IsStr(pub) THEN Thrown
              ELSE IF ~StartsWith(pub.s, "TK") \/ Length(pub) < 10
                   THEN Push(acc, "API public key format appears invalid (might cause 401 errors)",
                             "Ensure your API public key starts with \"TK\" and is correctly formatted according to Turnkey documentation")
                   ELSE acc
         ELSE acc

\* if (config.api_public_key && config.api_private_key &&
\*     (!config.api_public_key.includes('TK') || config.api_public_key.length < 10)) { ... }
\* (a truthy value that is neither string nor array has no includes: a TypeError).
CheckPublicKeyFormat(acc, config) ==
    LET pub == config.api_public_key IN
    IF acc.threw THEN Thrown
    ELSE IF Truthy(pub) /\ Truthy(config.api_private_key)
         THEN IF ~HasIncludes(pub) THEN Thrown
              ELSE IF ~Includes(pub, "TK") \/ Length(pub) < 10
                   THEN Push(acc, "API public key format appears invalid (might cause 401 errors)",
                             "Ensure your API public key starts with \"TK\" and is correctly formatted according to Turnkey documentation")
                   ELSE acc
         ELSE acc

\* analyzeConfig: every check in source order, then return { issues, suggestions }.
analyzeConfig(config) ==
    CheckPublicKeyFormat(
      CheckBaseUrl(
        CheckApiPrivateKey(
          CheckApiPublicKey(
            CheckWalletId(
              CheckOrgId(EmptyAcc, config), config), config), config), config), config)

\* ------------------------------------------------- services/policy.ts
\* The condition checks shared in shape by both policy variants:
\* condition.includes('solana.tx.transfers') && !includes('.all(') && !includes('.any(')
MissingQuantifier(condition) ==
    /\ Includes(condition, "solana.tx.transfers")
    /\ ~Includes(condition, ".all(")
    /\ ~Includes(condition, ".any(")

\* analyzeSimplifiedPolicy(policy: any): name, effect, condition, then the
\* informational suggestion when no issue was found.
SimplifiedPolicyName(acc, policy) ==
    IF acc.threw THEN Thrown
    ELSE IF ~Truthy(policy.policyName)
         THEN Push(acc, "Missing policyName field",
                   "Add a descriptive policy name:\n~~~json\n{\n  \"policyName\": \"Your Policy Name\",\n  ...\n}\n~~~")
         ELSE acc

SimplifiedPolicyEffect(acc, policy) ==
    IF acc.threw THEN Thrown
    ELSE IF ~Truthy(policy.effect)
         THEN Push(acc, "Missing effect field",
                   "Add the effect field (EFFECT_ALLOW or EFFECT_DENY):\n~~~json\n{\n  \"effect\": \"EFFECT_ALLOW\",\n  ...\n}\n~~~")
         ELSE IF policy.effect # Str("EFFECT_ALLOW") /\ policy.effect # Str("EFFECT_DENY")
              THEN Push(acc, "Invalid effect value: " \o ToStr(policy.effect),
                        "Use either \"EFFECT_ALLOW\" or \"EFFECT_DENY\" for the effect field")
              ELSE acc

\* if (policy.condition.includes('<SENDER_ADDRESS>')) { ... }
SimplifiedPolicyPlaceholder(acc, policy) ==
    IF acc.threw THEN Thrown
    ELSE IF Includes(policy.condition, "<SENDER_ADDRESS>")
         THEN Push(acc, "Condition contains placeholder <SENDER_ADDRESS>",
                   "Replace <SENDER_ADDRESS> with an actual blockchain address")
         ELSE acc

\* if (policy.condition.includes('solana.tx.transfers')) { if (!...all( && !...any() { ... } }
SimplifiedPolicyQuantifier(acc, policy) ==
    IF acc.threw THEN Thrown
    ELSE IF MissingQuantifier(policy.condition)
         THEN Push(acc, "Solana condition might be missing quantifier (all/any)",
                   "Consider using \"all\" or \"any\" quantifier in your Solana condition:\n~~~json\n{\n  \"condition\": \"solana.tx.transfers.all(transfer, transfer.from == 'your_address')\",\n  ...\n}\n~~~")
         ELSE acc

\* if (!policy.condition) { ... } else { placeholder; quantifier }
\* (a truthy condition that is neither string nor array has no includes: a TypeError).
SimplifiedPolicyCondition(acc, policy) ==
    IF acc.threw THEN Thrown
    ELSE IF ~Truthy(policy.condition)
         THEN Push(acc, "Missing condition field",
                   "Add a condition expression:\n~~~json\n{\n  \"condition\": \"your.condition.expression\",\n  ...\n}\n~~~")
         ELSE IF ~HasIncludes(policy.condition) THEN Thrown
         ELSE SimplifiedPolicyQuantifier(SimplifiedPolicyPlaceholder(acc, policy), policy)

\* if (issues.length === 0) { suggestions.push('Your policy looks valid! ...') }
SimplifiedPolicyValid(acc, policy) ==
    IF acc.threw THEN Thrown
    ELSE IF Len(acc.issues) = 0
         THEN PushSuggestion(acc,
                "Your policy looks valid! Here's how to use it with Turnkey:\n\n"
                \o "1. This policy will "
                \o (IF policy.effect = Str("EFFECT_ALLOW") THEN "allow" ELSE "deny")
                \o " transactions that match the condition:\n"
                \o "   ~" \o ToStr(policy.condition) \o "~\n\n"
                \o "2. For Solana conditions, make sure to replace any placeholders with actual addresses\n\n"
                \o "3. You can apply this policy to your Turnkey organization or specific wallets")
         ELSE acc

analyzeSimplifiedPolicy(policy) ==
    SimplifiedPolicyValid(
      SimplifiedPolicyCondition(
        SimplifiedPolicyEffect(
          SimplifiedPolicyName(EmptyAcc, policy), policy), policy), policy)

\* Mutant: !policy.required_approvals in place of === undefined.
CheckRequiredApprovalsFalsy(acc, policy) ==
    IF acc.threw THEN Thrown
    ELSE IF ~Truthy(policy.required_approvals)
         THEN Push(acc, "Missing required_approvals field",
                   "Add the required_approvals field to specify how many approvals are needed:\n~~~json\n{\n  \"required_approvals\": 1,\n  ...\n}\n~~~")
         ELSE IF LessThanOne(policy.required_approvals)
              THEN Push(acc, "required_approvals must be at least 1",
                        "Update required_approvals to be at least 1:\n~~~json\n{\n  \"required_approvals\": 1,\n  ...\n}\n~~~")
              ELSE acc

\* if (policy.required_approvals === undefined) { ... }
\* else if (policy.required_approvals < 1) { ... }
CheckRequiredApprovals(acc, policy) ==
    IF acc.threw THEN Thrown
    ELSE IF policy.required_approvals = ABSENT
         THEN Push(acc, "Missing required_approvals field",
                   "Add the required_approvals field to specify how many approvals are needed:\n~~~json\n{\n  \"required_approvals\": 1,\n  ...\n}\n~~~")
         ELSE IF LessThanOne(policy.required_approvals)
              THEN Push(acc, "required_approvals must be at least 1",
                        "Update required_approvals to be at least 1:\n~~~json\n{\n  \"required_approvals\": 1,\n  ...\n}\n~~~")
              ELSE acc

\* if (!key.key_id) { ... }   (index is the array index, from 0)
SigningKeyId(acc, key, index) ==
    IF acc.threw THEN Thrown
    ELSE IF ~Truthy(Get(key, "key_id"))
         THEN Push(acc, "Signing key at index " \o ToString(index) \o " is missing key_id",
                   "Add key_id to the signing key at index " \o ToString(index)
                   \o ":\n~~~json\n\"signing_keys\": [\n  {\n    \"key_id\": \"your-key-id\",\n    ...\n  }\n]\n~~~")
         ELSE acc

\* if (!key.public_key) { ... }
SigningKeyPublicKey(acc, key, index) ==
    IF acc.threw THEN Thrown
    ELSE IF ~Truthy(Get(key, "public_key"))
         THEN Push(acc, "Signing key at index " \o ToString(index) \o " is missing public_key",
                   "Add public_key to the signing key at index " \o ToString(index)
                   \o ":\n~~~json\n\"signing_keys\": [\n  {\n    \"public_key\": \"your-public-key\",\n    ...\n  }\n]\n~~~")
         ELSE acc

\* Mutant: public_key is looked at only when key_id is there (else if).
CheckSigningKeyElseIf(acc, key, index) ==
    IF acc.threw \/ Nullish(key) THEN Thrown
    ELSE IF ~Truthy(Get(key, "key_id")) THEN SigningKeyId(acc, key, index)
    ELSE SigningKeyPublicKey(acc, key, index)

\* The forEach callback on one signing key (reading a member of null is a TypeError).
CheckSigningKey(acc, key, index) ==
    IF acc.threw \/ Nullish(key) THEN Thrown
    ELSE SigningKeyPublicKey(SigningKeyId(acc, key, index), key, index)

\* policy.signing_keys.forEach((key, index) => ...), from position k of the array.
RECURSIVE ForEachSigningKey(_, _, _)
ForEachSigningKey(acc, keys, k) ==
    IF k > Len(keys) THEN acc
    ELSE ForEachSigningKey(CheckSigningKey(acc, keys[k], k - 1), keys, k + 1)

\* if (!policy.signing_keys || policy.signing_keys.length === 0) { ... } else { forEach }
\* (only an array has forEach: any other truthy value is a TypeError).
CheckSigningKeys(acc, policy) ==
    LET keys == policy.signing_keys IN
    IF acc.threw THEN Thrown
    ELSE IF ~Truthy(keys) \/ (HasLength(keys) /\ Length(keys) = 0)
         THEN Push(acc, "No signing keys defined in the policy",
                   "Add at least one signing key to the policy:\n~~~json\n{\n  \"signing_keys\": [\n    {\n      \"key_id\": \"your-key-id\",\n      \"name\": \"Key Name\",\n      \"public_key\": \"your-public-key\",\n      \"algorithm\": \"ECDSA_SECP256K1\"\n    }\n  ],\n  ...\n}\n~~~")
         ELSE IF ~IsList(keys) THEN Thrown
         ELSE ForEachSigningKey(acc, keys.l, 1)

\* if (!activity.type) { ... }
ActivityType(acc, activity, index) ==
    IF acc.threw THEN Thrown
    ELSE IF ~Truthy(Get(activity, "type"))
         THEN Push(acc, "Allowed activity at index " \o ToString(index) \o " is missing type",
                   "Add type to the allowed activity at index " \o ToString(index)
                   \o ":\n~~~json\n\"allowed_activities\": [\n  {\n    \"type\": \"SIGN_WITH_INTENT\",\n    ...\n  }\n]\n~~~")
         ELSE acc

\* if (!activity.resources || activity.resources.length === 0) { ... }
ActivityResources(acc, activity, index) ==
    LET resources == Get(activity, "resources") IN
    IF acc.threw THEN Thrown
    ELSE IF ~Truthy(resources) \/ (HasLength(resources) /\ Length(resources) = 0)
         THEN Push(acc, "Allowed activity at index " \o ToString(index) \o " has no resources defined",
                   "Add resources to the allowed activity at index " \o ToString(index)
                   \o ":\n~~~json\n\"allowed_activities\": [\n  {\n    \"resources\": [\"*\"],\n    ...\n  }\n]\n~~~")
         ELSE acc

\* if (condition.includes('<SENDER_ADDRESS>')) { ... }
ActivityPlaceholder(acc, condition, index) ==
    IF acc.threw THEN Thrown
    ELSE IF Includes(condition, "<SENDER_ADDRESS>")
         THEN Push(acc, "Solana policy condition at index " \o ToString(index)
                        \o " contains placeholder '<SENDER_ADDRESS>'",
                   "Replace '<SENDER_ADDRESS>' with an actual Solana address in the condition:\n~~~json\n\"condition\": \"solana.tx.transfers.all(transfer, transfer.from == 'actual_solana_address')\"\n~~~")
         ELSE acc

\* if (condition.includes('solana.tx.transfers')) { if (!...all( && !...any() { ... } }
ActivityQuantifier(acc, condition, index) ==
    IF acc.threw THEN Thrown
    ELSE IF MissingQuantifier(condition)
         THEN Push(acc, "Solana policy condition at index " \o ToString(index)
                        \o " might be missing quantifier (all/any)",
                   "Consider using 'all' or 'any' quantifier in your Solana condition:\n~~~json\n\"condition\": \"solana.tx.transfers.all(transfer, transfer.from == '<ADDRESS>')\"\n~~~")
         ELSE acc

\* if (activity.parameters && activity.parameters.condition) { placeholder; quantifier }
\* (a truthy condition that is neither string nor array has no includes: a TypeError).
ActivityCondition(acc, activity, index) ==
    LET parameters == Get(activity, "parameters")
        condition == Get(parameters, "condition")
    IN  IF acc.threw THEN Thrown
        ELSE IF Truthy(parameters) /\ Truthy(condition)
             THEN IF ~HasIncludes(condition) THEN Thrown
                  ELSE ActivityQuantifier(ActivityPlaceholder(acc, condition, index), condition, index)
             ELSE acc

\* The forEach callback on one allowed activity (reading a member of null is a TypeError).
CheckActivity(acc, activity, index) ==
    IF acc.threw \/ Nullish(activity) THEN Thrown
    ELSE ActivityCondition(
           ActivityResources(
             ActivityType(acc, activity, index), activity, index), activity, index)

\* policy.allowed_activities.forEach((activity, index) => ...), from position k.
RECURSIVE ForEachActivity(_, _, _)
ForEachActivity(acc, activities, k) ==
    IF k > Len(activities) THEN acc
    ELSE ForEachActivity(CheckActivity(acc, activities[k], k - 1), activities, k + 1)

\* if (!policy.allowed_activities || policy.allowed_activities.length === 0) { ... }
\* else { forEach }   (only an array has forEach).
CheckAllowedActivities(acc, policy) ==
    LET activities == policy.allowed_activities IN
    IF acc.threw THEN Thrown
    ELSE IF ~Truthy(activities) \/ (HasLength(activities) /\ Length(activities) = 0)
         THEN Push(acc, "No allowed_activities defined in the policy",
                   "Add allowed_activities to specify what operations are permitted:\n~~~json\n{\n  \"allowed_activities\": [\n    {\n      \"type\": \"SIGN_WITH_INTENT\",\n      \"resources\": [\"*\"]\n    }\n  ],\n  ...\n}\n~~~")
         ELSE IF ~IsList(activities) THEN Thrown
         ELSE ForEachActivity(acc, activities.l, 1)

\* Mutant: find looks for SIGN_WITH_INTENT alone.
IsSigningActivityIntentOnly(activity) ==
    Get(activity, "type") = Str("SIGN_WITH_INTENT")

\* The find predicate:
\* activity.type === 'SIGN_WITH_INTENT' || activity.type === 'SIGN_TRANSACTION'
IsSigningActivity(activity) ==
    Get(activity, "type") \in {Str("SIGN_WITH_INTENT"), Str("SIGN_TRANSACTION")}

\* Mutant: the last element the predicate accepts, not the first.
FindLastSigningActivity(activities) ==
    IF \E k \in 1..Len(activities) : IsSigningActivity(activities[k])
    THEN activities[CHOOSE k \in 1..Len(activities) :
                      /\ IsSigningActivity(activities[k])
                      /\ \A j \in (k + 1)..Len(activities) : ~IsSigningActivity(activities[j])]
    ELSE ABSENT

\* Array.prototype.find: the first element, in order, the predicate accepts;
\* undefined (ABSENT) when there is none.
FindSigningActivity(activities) ==
    IF \E k \in 1..Len(activities) : IsSigningActivity(activities[k])
    THEN activities[CHOOSE k \in 1..Len(activities) :
                      /\ IsSigningActivity(activities[k])
                      /\ \A j \in 1..(k - 1) : ~IsSigningActivity(activities[j])]
    ELSE ABSENT

\* const signWithIntentActivity = policy.allowed_activities?.find(...);
\* if (signWithIntentActivity && signWithIntentActivity.type === 'SIGN_WITH_INTENT') {
\*   if (!parameters) { ... } else if (!parameters.intent_action) { ... } }
\* (?. yields undefined for a missing or null list; a value that is no array has
\* no find, a TypeError; so is the predicate reaching a null element).
CheckSignWithIntent(acc, policy) ==
    LET activities == policy.allowed_activities IN
    IF acc.threw THEN Thrown
    ELSE IF Nullish(activities) THEN acc
    ELSE IF ~IsList(activities) THEN Thrown
    ELSE IF \E k \in 1..Len(activities.l) :
                 /\ Nullish(activities.l[k])
                 /\ \A j \in 1..(k - 1) : ~IsSigningActivity(activities.l[j])
         THEN Thrown
    ELSE LET signWithIntentActivity == FindSigningActivity(activities.l)
             parameters == Get(signWithIntentActivity, "parameters")
         IN  IF Get(signWithIntentActivity, "type") = Str("SIGN_WITH_INTENT")
             THEN IF ~Truthy(parameters)
                  THEN Push(acc, "SIGN_WITH_INTENT activity is missing parameters",
                            "Add parameters to the SIGN_WITH_INTENT activity:\n~~~json\n{\n  \"type\": \"SIGN_WITH_INTENT\",\n  \"parameters\": {\n    \"intent_action\": \"eth_signTypedData_v4\",\n    \"intent_version\": \"1\"\n  },\n  ...\n}\n~~~")
                  ELSE IF ~Truthy(Get(parameters, "intent_action"))
                       THEN Push(acc, "SIGN_WITH_INTENT activity is missing intent_action parameter",
                                 "Add intent_action parameter to the SIGN_WITH_INTENT activity:\n~~~json\n\"parameters\": {\n  \"intent_action\": \"eth_signTypedData_v4\",\n  ...\n}\n~~~")
                       ELSE acc
             ELSE acc

\* Mutant: the simplified shape gives way to a document with required_approvals.
IsSimplifiedPolicyUnlessStructured(policy) ==
    /\ HasKey(policy, "policyName") /\ HasKey(policy, "effect") /\ HasKey(policy, "condition")
    /\ ~HasKey(policy, "required_approvals")

\* 'policyName' in policy && 'effect' in policy && 'condition' in policy
IsSimplifiedPolicy(policy) ==
    HasKey(policy, "policyName") /\ HasKey(policy, "effect") /\ HasKey(policy, "condition")

\* analyzePolicy: the simplified shape first, else the structured checks in order.
analyzePolicy(policy) ==
    IF IsSimplifiedPolicy(policy) THEN analyzeSimplifiedPolicy(policy)
    ELSE CheckSignWithIntent(
           CheckAllowedActivities(
             CheckSigningKeys(
               CheckRequiredApprovals(EmptyAcc, policy), policy), policy), policy)

\* --------------------------------------------- services/transaction.ts
\* The sentinel activity type of a transaction signing request.
SignTransactionV2 == "ACTIVITY_TYPE_SIGN_TRANSACTION_V2"

\* const supportedTypes = [...]
supportedTypes ==
    <<"TRANSACTION_TYPE_ETHEREUM", "TRANSACTION_TYPE_SOLANA", "TRANSACTION_TYPE_BITCOIN">>

\* supportedTypes.join(', ')
supportedTypesJoined ==
    supportedTypes[1] \o ", " \o supportedTypes[2] \o ", " \o supportedTypes[3]

\* The class [0-9a-f] under the i flag.
HexDigits ==
    {"0", "1", "2", "3", "4", "5", "6", "7", "8", "9",
     "a", "b", "c", "d", "e", "f", "A", "B", "C", "D", "E", "F"}

\* /^[0-9a-f]+$/i.test(s)
IsHexDigits(s) == Len(s) >= 1 /\ \A k \in 1..Len(s) : SubSeq(s, k, k) \in HexDigits

\* /^0x[0-9a-f]+$/i.test(s): the i flag covers the x of the prefix too.
IsPrefixedHex(s) ==
    /\ Len(s) >= 3
    /\ SubSeq(s, 1, 2) \in {"0x", "0X"}
    /\ IsHexDigits(SubSeq(s, 3, Len(s)))

\* if (!transaction.organizationId) { ... }
CheckOrganizationId(acc, transaction) ==
    IF acc.threw THEN Thrown
    ELSE IF ~Truthy(transaction.organizationId)
         THEN Push(acc, "Missing organizationId field",
                   "Add your Turnkey organization ID to the request:\n~~~json\n{\n  \"organizationId\": \"your-org-id\",\n  ...\n}\n~~~")
         ELSE acc

\* if (!transaction.type) { ... }
\* else if (transaction.type !== 'ACTIVITY_TYPE_SIGN_TRANSACTION_V2') { ... }
CheckActivityType(acc, transaction) ==
    IF acc.threw THEN Thrown
    ELSE IF ~Truthy(transaction.type)
         THEN Push(acc, "Missing type field",
                   "Add the activity type to the request:\n~~~json\n{\n  \"type\": \"ACTIVITY_TYPE_SIGN_TRANSACTION_V2\",\n  ...\n}\n~~~")
         ELSE IF transaction.type # Str(SignTransactionV2)
              THEN Push(acc, "Unsupported transaction type: " \o ToStr(transaction.type),
                        "Use \"ACTIVITY_TYPE_SIGN_TRANSACTION_V2\" for the type field:\n~~~json\n{\n  \"type\": \"ACTIVITY_TYPE_SIGN_TRANSACTION_V2\",\n  ...\n}\n~~~")
              ELSE acc

\* Mutant: the clock reading goes into the issue text as well.
CheckTimestampInIssue(acc, transaction, now) ==
    IF acc.threw THEN Thrown
    ELSE IF ~Truthy(transaction.timestampMs)
         THEN Push(acc, "Missing timestampMs field at " \o ToString(now),
                   "Add a current timestamp in milliseconds:\n~~~json\n{\n  \"timestampMs\": \""
                   \o ToString(now) \o "\",\n  ...\n}\n~~~")
         ELSE acc

\* if (!transaction.timestampMs) { ... Date.now().toString() ... }
\* now is the wall clock at the call.
CheckTimestamp(acc, transaction, now) ==
    IF acc.threw THEN Thrown
    ELSE IF ~Truthy(transaction.timestampMs)
         THEN Push(acc, "Missing timestampMs field",
                   "Add a current timestamp in milliseconds:\n~~~json\n{\n  \"timestampMs\": \""
                   \o ToString(now) \o "\",\n  ...\n}\n~~~")
         ELSE acc

\* if (!transaction.parameters.type) { ... }
\* else if (!supportedTypes.includes(transaction.parameters.type)) { ... }
CheckBlockchainType(acc, parameters) ==
    LET type == Get(parameters, "type") IN
    IF acc.threw THEN Thrown
    ELSE IF ~Truthy(type)
         THEN Push(acc, "Missing transaction type in parameters",
                   "Add the transaction type to parameters:\n~~~json\n\"parameters\": {\n  \"type\": \"TRANSACTION_TYPE_ETHEREUM\",\n  ...\n}\n~~~")
         ELSE IF ~\E k \in 1..Len(supportedTypes) : type = Str(supportedTypes[k])
              THEN Push(acc, "Unsupported blockchain type: " \o ToStr(type),
                        "Use one of the supported blockchain types: " \o supportedTypesJoined)
              ELSE acc

\* if (!transaction.parameters.signWith) { ... }
\* else if (transaction.parameters.type === 'TRANSACTION_TYPE_ETHEREUM') {
\*   if (!signWith.startsWith('0x') || signWith.length !== 42) { ... } }
\* (only a string has startsWith: any other truthy value is a TypeError).
CheckSignWith(acc, parameters) ==
    LET signWith == Get(parameters, "signWith") IN
    IF acc.threw THEN Thrown
    ELSE IF ~Truthy(signWith)
         THEN Push(acc, "Missing signWith address in parameters",
                   "Add the address to sign with:\n~~~json\n\"parameters\": {\n  \"signWith\": \"your-blockchain-address\",\n  ...\n}\n~~~")
         ELSE IF Get(parameters, "type") = Str("TRANSACTION_TYPE_ETHEREUM")
              THEN IF ~IsStr(signWith) THEN Thrown
                   ELSE IF ~StartsWith(signWith.s, "0x") \/ Len(signWith.s) # 42
                        THEN Push(acc, "Invalid Ethereum address format",
                                  "Ethereum addresses should start with \"0x\" and be 42 characters long")
                        ELSE acc
              ELSE acc

\* if (!transaction.parameters.unsignedTransaction) { ... }
\* else if (!/^0x[0-9a-f]+$/i.test(...) && !/^[0-9a-f]+$/i.test(...)) { ... }
\* (RegExp.prototype.test converts its argument with String()).
CheckUnsignedTransaction(acc, parameters) ==
    LET unsignedTransaction == Get(parameters, "unsignedTransaction") IN
    IF acc.threw THEN Thrown
    ELSE IF ~Truthy(unsignedTransaction)
         THEN Push(acc, "Missing unsignedTransaction in parameters",
                   "Add the unsigned transaction hex:\n~~~json\n\"parameters\": {\n  \"unsignedTransaction\": \"your-unsigned-transaction-hex\",\n  ...\n}\n~~~")
         ELSE IF /\ ~IsPrefixedHex(ToStr(unsignedTransaction))
                 /\ ~IsHexDigits(ToStr(unsignedTransaction))
              THEN Push(acc, "Invalid transaction hex format",
                        "Transaction hex should contain only hexadecimal characters, optionally starting with \"0x\"")
              ELSE acc

\* Mutant: the sub-field checks run on a missing parameters object as well.
CheckParametersNoSkip(acc, transaction) ==
    LET parameters == transaction.parameters
        first == IF ~acc.threw /\ ~Truthy(parameters)
                 THEN Push(acc, "Missing parameters object",
                           "Add the parameters object with transaction details")
                 ELSE acc
    IN  CheckUnsignedTransaction(
          CheckSignWith(
            CheckBlockchainType(first, parameters), parameters), parameters)

\* if (!transaction.parameters) { ... } else { type; signWith; unsignedTransaction }
CheckParameters(acc, transaction) ==
    LET parameters == transaction.parameters IN
    IF acc.threw THEN Thrown
    ELSE IF ~Truthy(parameters)
         THEN Push(acc, "Missing parameters object",
                   "Add the parameters object with transaction details:\n~~~json\n{\n  \"parameters\": {\n    \"type\": \"TRANSACTION_TYPE_ETHEREUM\",\n    \"signWith\": \"your-ethereum-address\",\n    \"unsignedTransaction\": \"your-unsigned-transaction-hex\"\n  },\n  ...\n}\n~~~")
         ELSE CheckUnsignedTransaction(
                CheckSignWith(
                  CheckBlockchainType(acc, parameters), parameters), parameters)

\* if (issues.length === 0) { suggestions.push('Your transaction signing request looks valid! ...') }
CheckNextSteps(acc) ==
    IF acc.threw THEN Thrown
    ELSE IF Len(acc.issues) = 0
         THEN PushSuggestion(acc,
                "Your transaction signing request looks valid! Here's how to use it with Turnkey:\n\n"
                \o "1. Use the Turnkey API to submit this request:\n"
                \o "~~~bash\n"
                \o "turnkey request --path /public/v1/submit/sign_transaction --body '<your-json-content>' --key-name your-key-name\n"
                \o "~~~\n\n"
                \o "2. From the response, extract the \"signedTransaction\" value:\n"
                \o "~~~json\n"
                \o "{\n"
                \o "  \"activity\": {\n"
                \o "    \"result\": {\n"
                \o "      \"signTransactionResult\": {\n"
                \o "        \"signedTransaction\": \"0x...\" // This is what you need\n"
                \o "      }\n"
                \o "    }\n"
                \o "  }\n"
                \o "}\n"
                \o "~~~\n\n"
                \o "3. Broadcast the signed transaction to the blockchain network using etherscan:\n"
                \o "https://etherscan.io/tx/0x..."
                \o "\n\n"
                \o "4. Track your transaction on a blockchain explorer like Etherscan")
         ELSE acc

\* analyzeTransaction, called when the wall clock reads now.
analyzeTransaction(transaction, now) ==
    CheckNextSteps(
      CheckParameters(
        CheckTimestamp(
          CheckActivityType(
            CheckOrganizationId(EmptyAcc, transaction), transaction), transaction, now), transaction))

\* ------------------------------------------------------------ documents
\* A parsed document: every key the program reads, ABSENT where the file has none.
DocKeys ==
    {"org_id", "wallet_id", "api_public_key", "api_private_key", "base_url",
     "required_approvals", "signing_keys", "allowed_activities",
     "policyName", "effect", "condition",
     "type", "organizationId", "timestampMs", "parameters"}

EmptyDoc == [k \in DocKeys |-> ABSENT]

\* The sequences over S of length at most n.
SeqsUpTo(S, n) == UNION {[1..m -> S] : m \in 0..n}

\* --- TurnkeyConfig: values of the declared type (string), the empty string included.
IdValues == {ABSENT, Str(""), Str("test-org")}

PublicKeyValues ==
    {ABSENT, Str(""), Str("TK1234567890"), Str("test-key"), Str("TK12"),
     Str("0123456789"), Str("xxTKxxxxxx")}

PrivateKeyValues ==
    {ABSENT, Str(""), Str("this-is-a-long-enough-private-key-for-testing"),
     Str("test-private-key"), Str("${KEY}"), Str("0123456789012345678"),
     Str("01234567890123456789")}

BaseUrlValues ==
    {ABSENT, Str(""), Str("https://api.turnkey.com"), Str("http://api.turnkey.com"),
     Str("api.turnkey.com"), Str("HTTP://api.turnkey.com"), Str("ftp://http://x")}

ValidConfig ==
    [EmptyDoc EXCEPT !.org_id = Str("test-org"), !.wallet_id = Str("test-wallet"),
                     !.api_public_key = Str("TK1234567890"),
                     !.api_private_key = Str("this-is-a-long-enough-private-key-for-testing"),
                     !.base_url = Str("https://api.turnkey.com")]

ConfigDocs ==
    {[EmptyDoc EXCEPT !.org_id = o, !.wallet_id = w, !.api_public_key = pub,
                      !.api_private_key = priv, !.base_url = url] :
        o \in IdValues, w \in {ABSENT, Str("test-wallet")}, pub \in PublicKeyValues,
        priv \in PrivateKeyValues, url \in BaseUrlValues}

\* --- TurnkeyPolicy, structured.
SigningKey(keyId, publicKey) ==
    Obj([key_id |-> keyId, name |-> Str("Test Key"), public_key |-> publicKey,
         algorithm |-> Str("ECDSA_SECP256K1")])

ValidKey == SigningKey(Str("test-key"), Str("test-public-key"))

KeyEntries ==
    {SigningKey(k, pk) : k \in {ABSENT, Str(""), Str("test-key")},
                         pk \in {ABSENT, Str("test-public-key")}}

Activity(type, resources, parameters) ==
    Obj([type |-> type, resources |-> resources, parameters |-> parameters])

Star == List(<<Str("*")>>)
IntentParameters ==
    Obj([intent_action |-> Str("eth_signTypedData_v4"), intent_version |-> Str("1")])
ValidActivity == Activity(Str("SIGN_WITH_INTENT"), Star, IntentParameters)

ActivityEntries ==
    {ValidActivity,
     Activity(Str("SIGN_WITH_INTENT"), Star, ABSENT),
     Activity(Str("SIGN_WITH_INTENT"), Star, Obj([intent_version |-> Str("1")])),
     Activity(Str("SIGN_TRANSACTION"), Star, ABSENT),
     Activity(Str("CREATE_WALLET"), Star, ABSENT),
     Activity(ABSENT, Star, ABSENT),
     Activity(Str("SIGN_WITH_INTENT"), ABSENT, IntentParameters),
     Activity(Str("CREATE_WALLET"), List(<<>>), ABSENT),
     Activity(Str("CREATE_WALLET"), Star,
              Obj([condition |-> Str("solana.tx.transfers.all(transfer, transfer.from == '<SENDER_ADDRESS>')")])),
     Activity(Str("CREATE_WALLET"), Star,
              Obj([condition |-> Str("solana.tx.transfers.count() > 0")])),
     Activity(Str("SIGN_TRANSACTION"), Star,
              Obj([condition |-> Str("solana.tx.transfers.any(t, t.to == 'abc')")])),
     Activity(Str("SIGN_WITH_INTENT"), Star,
              Obj([intent_action |-> Str("eth_signTypedData_v4"),
                   condition |-> Str("<SENDER_ADDRESS> == solana.tx.transfers[0].from")]))}

KeyLists == {List(l) : l \in SeqsUpTo(KeyEntries, MaxKeys)}
ActivityLists == {List(l) : l \in SeqsUpTo(ActivityEntries, MaxActivities)}

ValidPolicy ==
    [EmptyDoc EXCEPT !.required_approvals = Num(1),
                     !.signing_keys = List(<<ValidKey>>),
                     !.allowed_activities = List(<<ValidActivity>>)]

\* Every signing_keys list against few activities, and every allowed_activities
\* list against few keys.
StructuredPolicyDocs ==
    {[EmptyDoc EXCEPT !.required_approvals = ra, !.signing_keys = sk,
                      !.allowed_activities = aa] :
        ra \in {ABSENT, Num(-1), Num(0), Num(1), Num(2)},
        sk \in {ABSENT} \cup KeyLists,
        aa \in {ABSENT, List(<<ValidActivity>>)}}
    \cup
    {[EmptyDoc EXCEPT !.required_approvals = ra, !.signing_keys = sk,
                      !.allowed_activities = aa] :
        ra \in {ABSENT, Num(1)},
        sk \in {List(<<ValidKey>>)},
        aa \in ActivityLists}

\* --- TurnkeyPolicy, the policyName / effect / condition keys, alone or on top of
\* structured fields.
ConditionValues ==
    {ABSENT, Str(""), Str("eth.tx.to == '0xabc'"),
     Str("solana.tx.transfers.all(transfer, transfer.from == '<SENDER_ADDRESS>')"),
     Str("solana.tx.transfers.count() > 0"),
     Str("solana.tx.transfers.any(t, t.to == 'abc')")}

NamedPolicyDocs ==
    {[base EXCEPT !.policyName = n, !.effect = e, !.condition = c] :
        base \in {EmptyDoc, ValidPolicy, [ValidPolicy EXCEPT !.required_approvals = Num(0)],
                  [EmptyDoc EXCEPT !.signing_keys = List(<<SigningKey(ABSENT, ABSENT)>>)]},
        n \in {ABSENT, Str(""), Str("My Policy")},
        e \in {ABSENT, Str(""), Str("EFFECT_ALLOW"), Str("EFFECT_DENY"), Str("ALLOW")},
        c \in ConditionValues}

\* --- TurnkeyTransactionRequest.
EthereumAddress == "0x" \o "0123456789abcdef0123456789abcdef01234567"

ParameterObjects ==
    {Obj([type |-> t, signWith |-> a, unsignedTransaction |-> u]) :
        t \in {ABSENT, Str("TRANSACTION_TYPE_ETHEREUM"), Str("TRANSACTION_TYPE_SOLANA"),
               Str("TRANSACTION_TYPE_COSMOS")},
        a \in {ABSENT, Str(EthereumAddress), Str("0x1234"),
               Str("ab" \o "0123456789abcdef0123456789abcdef01234567")},
        u \in {ABSENT, Str("0x02f8"), Str("02F8"), Str("0X02f8"), Str("0x"), Str("0x02g8")}}

ValidTransaction ==
    [EmptyDoc EXCEPT !.organizationId = Str("test-org"), !.type = Str(SignTransactionV2),
                     !.timestampMs = Str("1746736509954"),
                     !.parameters = Obj([type |-> Str("TRANSACTION_TYPE_ETHEREUM"),
                                         signWith |-> Str(EthereumAddress),
                                         unsignedTransaction |-> Str("0x02f8")])]

TransactionDocs ==
    {[EmptyDoc EXCEPT !.organizationId = o, !.type = t, !.timestampMs = ts,
                      !.parameters = p] :
        o \in {ABSENT, Str("test-org")},
        t \in {ABSENT, Str(""), Str(SignTransactionV2), Str("ACTIVITY_TYPE_SIGN_RAW_PAYLOAD")},
        ts \in {ABSENT, Str("1746736509954")},
        p \in {ABSENT} \cup ParameterObjects}

\* --- Documents that carry the keys of several shapes at once.
MixedDocs ==
    {[base EXCEPT !.type = t, !.required_approvals = ra, !.signing_keys = sk,
                  !.policyName = n, !.effect = e, !.condition = c] :
        base \in {ValidConfig, [ValidTransaction EXCEPT !.timestampMs = ABSENT]},
        t \in {ABSENT, Str(SignTransactionV2), Str("ACTIVITY_TYPE_SIGN_RAW_PAYLOAD")},
        ra \in {ABSENT, Num(1)}, sk \in {ABSENT, List(<<ValidKey>>)},
        n \in {ABSENT, Str("My Policy")}, e \in {ABSENT, Str("EFFECT_ALLOW")},
        c \in {ABSENT, Str("eth.tx.to == '0xabc'")}}

\* The documents whose every field has the type types/index.ts declares for it.
TypedDocs ==
    ConfigDocs \cup StructuredPolicyDocs \cup NamedPolicyDocs \cup TransactionDocs \cup MixedDocs

\* --- Documents with a field of another JSON type than the declared one.
WrongValues ==
    {Null, Bool(TRUE), Bool(FALSE), Num(0), Num(5), Str(""), Str("abc"), Str("5"),
     List(<<>>), List(<<Str("abc")>>), Obj([x |-> Num(1)])}

\* The JSON type types/index.ts declares for each key (any: policyName, effect, condition).
DeclaredType(k) ==
    CASE k = "required_approvals" -> {"num"}
      [] k \in {"signing_keys", "allowed_activities"} -> {"list"}
      [] k = "parameters" -> {"obj"}
      [] OTHER -> {"str"}

ValidSimplifiedPolicy ==
    [EmptyDoc EXCEPT !.policyName = Str("My Policy"), !.effect = Str("EFFECT_ALLOW"),
                     !.condition = Str("eth.tx.to == '0xabc'")]

IllTypedFieldDocs ==
    {[base EXCEPT ![k] = v] :
        base \in {ValidConfig, ValidPolicy, ValidSimplifiedPolicy, ValidTransaction},
        k \in DocKeys, v \in WrongValues}

IllTypedEntryDocs ==
    {[ValidPolicy EXCEPT !.signing_keys = List(<<ValidKey, e>>)] :
        e \in {Null, Num(5), Str("abc"), SigningKey(Num(7), Bool(TRUE))}}
    \cup
    {[ValidPolicy EXCEPT !.allowed_activities = List(<<ValidActivity, e>>)] :
        e \in {Null, Num(5), Activity(Num(1), Str("abc"), Num(5)),
               Activity(Str("SIGN_WITH_INTENT"), Num(5), Str("abc")),
               Activity(Str("CREATE_WALLET"), Star, Obj([condition |-> Num(5)])),
               Activity(Str("CREATE_WALLET"), Star,
                        Obj([condition |-> List(<<Str("<SENDER_ADDRESS>")>>)]))}}
    \cup
    {[ValidTransaction EXCEPT !.parameters = Obj([type |-> t, signWith |-> a,
                                                  unsignedTransaction |-> u])] :
        t \in {Str("TRANSACTION_TYPE_ETHEREUM"), Num(5)},
        a \in {Str(EthereumAddress), Num(5), List(<<Str("0x")>>)},
        u \in {Str("0x02f8"), Num(1234), Bool(TRUE)}}

\* An optional string member: absent, or a string.
OptStr(v) == v = ABSENT \/ IsStr(v)

\* SigningKey: an object whose key_id and public_key are optional strings.
WellTypedKey(e) ==
    IsObj(e) /\ OptStr(Get(e, "key_id")) /\ OptStr(Get(e, "public_key"))

\* AllowedActivity: type?: string, resources?: string[], parameters?: Record,
\* with parameters.condition a string (policy.ts takes it as string).
WellTypedActivity(e) ==
    /\ IsObj(e)
    /\ OptStr(Get(e, "type"))
    /\ \/ Get(e, "resources") = ABSENT
       \/ /\ IsList(Get(e, "resources"))
          /\ \A k \in 1..Len(Get(e, "resources").l) : IsStr(Get(e, "resources").l[k])
    /\ \/ Get(e, "parameters") = ABSENT
       \/ /\ IsObj(Get(e, "parameters"))
          /\ OptStr(Get(Get(e, "parameters"), "condition"))
          /\ OptStr(Get(Get(e, "parameters"), "intent_action"))

\* Every field of the document, and of its entries, has its declared type.
WellTyped(d) ==
    /\ \A k \in DocKeys : d[k] = ABSENT \/ d[k].t \in DeclaredType(k)
    /\ IsList(d.signing_keys) =>
         \A k \in 1..Len(d.signing_keys.l) : WellTypedKey(d.signing_keys.l[k])
    /\ IsList(d.allowed_activities) =>
         \A k \in 1..Len(d.allowed_activities.l) : WellTypedActivity(d.allowed_activities.l[k])
    /\ IsObj(d.parameters) =>
         /\ OptStr(Get(d.parameters, "type"))
         /\ OptStr(Get(d.parameters, "signWith"))
         /\ OptStr(Get(d.parameters, "unsignedTransaction"))

Docs == TypedDocs \cup IllTypedFieldDocs \cup IllTypedEntryDocs

\* ------------------------------------------------------------------ state
VARIABLES
    doc,          \* the parsed document (JSON5.parse of the file)
    file,         \* the file named on the command line: "ok", "missing", "malformed"
    verbose,      \* options.verbose
    apiKey,       \* process.env.OPENAI_API_KEY: "unset", "invalid", "valid"
    now,          \* the last reading of the wall clock
    pc,           \* where checkConfig stands
    fileType,     \* checkConfig's fileType
    issues,       \* checkConfig's issues
    suggestions,  \* checkConfig's suggestions
    i,            \* the report loop's index, from 1
    invoked,      \* the evaluators called so far, in order
    out,          \* what was printed and requested so far, in order
    explanation,  \* the outcome of the generateExplanation call in progress
    error,        \* the exception that ended the run, "" if none
    fn,           \* SpecEval: the evaluator the caller invokes, "none" before the first call
    runs          \* SpecEval: the outcome of each invocation, in order

vars ==
    <<doc, file, verbose, apiKey, now, pc, fileType, issues, suggestions, i, invoked,
      out, explanation, error, fn, runs>>

cliVars ==
    <<file, verbose, apiKey, pc, fileType, issues, suggestions, i, invoked, out,
      explanation, error>>

NoExplanation == [threw |-> FALSE, text |-> ""]

\* --------------------------------------------- direct calls of an evaluator
InitEval ==
    /\ doc \in Docs
    /\ now = 1
    /\ fn = "none"
    /\ runs = <<>>
    /\ file = "ok" /\ verbose = FALSE /\ apiKey = "unset" /\ pc = "idle"
    /\ fileType = "config" /\ issues = <<>> /\ suggestions = <<>> /\ i = 1
    /\ invoked = <<>> /\ out = <<>> /\ explanation = NoExplanation /\ error = ""

\* await analyzeConfig(config)
InvokeConfig ==
    /\ pc = "idle" /\ fn \in {"none", "config"} /\ Len(runs) < MaxRuns
    /\ fn' = "config"
    /\ runs' = Append(runs, analyzeConfig(doc))
    /\ UNCHANGED <<doc, now, cliVars>>

\* await analyzePolicy(policy)
InvokePolicy ==
    /\ pc = "idle" /\ fn \in {"none", "policy"} /\ Len(runs) < MaxRuns
    /\ fn' = "policy"
    /\ runs' = Append(runs, analyzePolicy(doc))
    /\ UNCHANGED <<doc, now, cliVars>>

\* await analyzeTransaction(transaction), at a clock reading not before the last one
InvokeTransaction ==
    /\ pc = "idle" /\ fn \in {"none", "transaction"} /\ Len(runs) < MaxRuns
    /\ fn' = "transaction"
    /\ \E t \in now..MaxClock :
         /\ now' = t
         /\ runs' = Append(runs, analyzeTransaction(doc, t))
    /\ UNCHANGED <<doc, cliVars>>

NextEval == InvokeConfig \/ InvokePolicy \/ InvokeTransaction

SpecEval == InitEval /\ [][NextEval]_vars

\* ------------------------------------------------- commands/check.ts
\* One printed or requested item of the run: what, and for which issue (0: none).
Event(ev, n) == [ev |-> ev, n |-> n]

Init ==
    /\ \/ file = "ok" /\ doc \in Docs
       \/ file \in {"missing", "malformed"} /\ doc = EmptyDoc
    /\ verbose \in BOOLEAN
    /\ apiKey \in {"unset", "invalid", "valid"}
    /\ now = 1
    /\ pc = "start"
    /\ fileType = "config" /\ issues = <<>> /\ suggestions = <<>> /\ i = 1
    /\ invoked = <<>> /\ out = <<>> /\ explanation = NoExplanation /\ error = ""
    /\ fn = "none" /\ runs = <<>>

\* await fs.access(resolvedPath) fails: throw new Error(`File not found: ...`)
FileNotFound ==
    /\ pc = "start" /\ file = "missing"
    /\ pc' = "failed" /\ error' = "File not found"
    /\ UNCHANGED <<doc, file, verbose, apiKey, now, fileType, issues, suggestions, i,
                   invoked, out, explanation, fn, runs>>

\* JSON5.parse(fileContent) fails: throw new Error(`Invalid JSON format in file: ...`)
InvalidJson ==
    /\ pc = "start" /\ file = "malformed"
    /\ pc' = "failed" /\ error' = "Invalid JSON format in file"
    /\ UNCHANGED <<doc, file, verbose, apiKey, now, fileType, issues, suggestions, i,
                   invoked, out, explanation, fn, runs>>

\* Mutant: any document with a type key is taken for a transaction request.
IsTransactionShapeAnyType(data) == HasKey(data, "type")

\* 'type' in data && data.type === 'ACTIVITY_TYPE_SIGN_TRANSACTION_V2'
IsTransactionShape(data) == HasKey(data, "type") /\ data.type = Str(SignTransactionV2)

\* 'required_approvals' in data || 'signing_keys' in data ||
\* ('policyName' in data && 'effect' in data && 'condition' in data)
IsPolicyShape(data) ==
    \/ HasKey(data, "required_approvals")
    \/ HasKey(data, "signing_keys")
    \/ (HasKey(data, "policyName") /\ HasKey(data, "effect") /\ HasKey(data, "condition"))

\* Mutant: the policy test placed before the transaction test.
ClassifyPolicyFirst(data) ==
    IF IsPolicyShape(data) THEN "policy"
    ELSE IF IsTransactionShape(data) THEN "transaction"
    ELSE "config"

\* The if / else if / else of checkConfig: the first branch whose test holds.
Classify(data) ==
    IF IsTransactionShape(data) THEN "transaction"
    ELSE IF IsPolicyShape(data) THEN "policy"
    ELSE "config"

\* The branch taken: the evaluator is called and awaited; its arrays and the file
\* type are stored, or its exception leaves checkConfig (catch: throw error).
Analyzed(kind, result) ==
    /\ invoked' = Append(invoked, kind)
    /\ IF result.threw
       THEN /\ pc' = "failed" /\ error' = "TypeError"
            /\ UNCHANGED <<fileType, issues, suggestions>>
       ELSE /\ pc' = "report" /\ error' = ""
            /\ fileType' = kind
            /\ issues' = result.issues
            /\ suggestions' = result.suggestions
    /\ UNCHANGED <<doc, file, verbose, apiKey, i, out, explanation, fn, runs>>

DetectTransaction ==
    /\ pc = "start" /\ file = "ok"
    /\ Classify(doc) = "transaction"
    /\ \E t \in now..MaxClock :
         /\ now' = t
         /\ Analyzed("transaction", analyzeTransaction(doc, t))

DetectPolicy ==
    /\ pc = "start" /\ file = "ok"
    /\ Classify(doc) = "policy"
    /\ Analyzed("policy", analyzePolicy(doc))
    /\ UNCHANGED now

DetectConfig ==
    /\ pc = "start" /\ file = "ok"
    /\ Classify(doc) = "config"
    /\ Analyzed("config", analyzeConfig(doc))
    /\ UNCHANGED now

\* if (issues.length === 0) { 'No issues found!'; the next steps of a transaction; return }
ReportNoIssues ==
    /\ pc = "report" /\ Len(issues) = 0
    /\ out' = out \o <<Event("no issues", 0)>>
              \o (IF Len(suggestions) > 0 /\ fileType = "transaction"
                  THEN <<Event("next steps", 0)>> ELSE <<>>)
    /\ pc' = "done"
    /\ UNCHANGED <<doc, file, verbose, apiKey, now, fileType, issues, suggestions, i,
                   invoked, explanation, error, fn, runs>>

\* `Found ${issues.length} potential issues:`, then the loop from i = 0.
ReportIssues ==
    /\ pc = "report" /\ Len(issues) > 0
    /\ out' = Append(out, Event("found", Len(issues)))
    /\ i' = 1
    /\ pc' = "loop"
    /\ UNCHANGED <<doc, file, verbose, apiKey, now, fileType, issues, suggestions,
                   invoked, explanation, error, fn, runs>>

\* suggestions[i], undefined past the end of the array.
SuggestionAt(k) == IF k <= Len(suggestions) THEN Str(suggestions[k]) ELSE ABSENT

\* One pass of the loop body up to the explanation: the issue, and its suggested
\* fix if (suggestions[i]).
Printed(k) ==
    <<Event("issue", k)>> \o (IF Truthy(SuggestionAt(k)) THEN <<Event("fix", k)>> ELSE <<>>)

\* i++, and the loop test i < issues.length.
Advance ==
    /\ i' = i + 1
    /\ pc' = IF i + 1 <= Len(issues) THEN "loop" ELSE "done"

\* The loop body when options.verbose is off.
PrintIssue ==
    /\ pc = "loop" /\ ~verbose
    /\ out' = out \o Printed(i)
    /\ Advance
    /\ UNCHANGED <<doc, file, verbose, apiKey, now, fileType, issues, suggestions,
                   invoked, explanation, error, fn, runs>>

\* Mutant: the call is not awaited; the loop goes on to the next issue at once.
PrintIssueVerboseNoAwait ==
    /\ pc = "loop" /\ verbose
    /\ out' = out \o Printed(i) \o <<Event("explanation header", i)>>
    /\ Advance
    /\ UNCHANGED <<doc, file, verbose, apiKey, now, fileType, issues, suggestions,
                   invoked, explanation, error, fn, runs>>

\* The loop body when options.verbose is on, up to the call
\* generateExplanation(issues[i], suggestions[i]).
PrintIssueVerbose ==
    /\ pc = "loop" /\ verbose
    /\ out' = out \o Printed(i) \o <<Event("explanation header", i)>>
    /\ pc' = "explain"
    /\ UNCHANGED <<doc, file, verbose, apiKey, now, fileType, issues, suggestions, i,
                   invoked, explanation, error, fn, runs>>

\* ------------------------------- generateExplanation (in commands/check.ts)
KeyNotConfigured ==
    "OpenAI API key not configured. Please set the OPENAI_API_KEY environment variable to enable detailed explanations."
UnableToGenerate == "Unable to generate explanation."
FailedToGenerate ==
    "Failed to generate explanation. Please check your OpenAI API key and try again."

\* What generateExplanation hands its caller: a string, or an exception.
Returned(text) == [threw |-> FALSE, text |-> text]
Raised == [threw |-> TRUE, text |-> ""]

\* The text the model may answer with.
ModelText == "This issue occurs because a required field is not set."

\* A completion body carrying the given message content.
Completion(content) ==
    Obj([choices |-> List(<<Obj([message |-> Obj([content |-> content])])>>)])

\* How await openai.chat.completions.create(...) can end: rejected (network error,
\* 401, rate limit), or resolved with a body.
ApiOutcomes ==
    {[rejected |-> TRUE, body |-> ABSENT]}
    \cup {[rejected |-> FALSE, body |-> b] :
            b \in {Completion(Str(ModelText)), Completion(Str("")), Completion(Null),
                   Obj([choices |-> List(<<>>)]),
                   Obj([choices |-> List(<<Obj([finish_reason |-> Str("length")])>>)]),
                   Obj([error |-> Str("malformed")])}}

\* An invalid key is answered 401: the call rejects.
OutcomesFor(key) ==
    IF key = "valid" THEN ApiOutcomes ELSE {o \in ApiOutcomes : o.rejected}

\* v?.k
OptGet(v, k) == IF Nullish(v) THEN ABSENT ELSE Get(v, k)

\* response.choices[0]: a TypeError on a body without choices, undefined on an empty array.
HasChoices(body) == ~Nullish(Get(body, "choices"))
FirstChoice(body) ==
    LET choices == Get(body, "choices") IN
    IF IsList(choices) /\ Len(choices.l) > 0 THEN choices.l[1] ELSE ABSENT

\* Mutant: the catch block rethrows.
CatchErrorRethrow == Raised

\* catch (error) { console.error(...); return 'Failed to generate explanation. ...' }
CatchError == Returned(FailedToGenerate)

\* return response.choices[0]?.message?.content || 'Unable to generate explanation.'
\* inside the try, after the await.
ExplanationOf(outcome) ==
    IF outcome.rejected \/ ~HasChoices(outcome.body) THEN CatchError
    ELSE LET content == OptGet(OptGet(FirstChoice(outcome.body), "message"), "content")
         IN  IF Truthy(content) THEN Returned(ToStr(content)) ELSE Returned(UnableToGenerate)

\* if (!process.env.OPENAI_API_KEY) { return 'OpenAI API key not configured. ...' }
ExplainNoKey ==
    /\ pc = "explain" /\ apiKey = "unset"
    /\ explanation' = Returned(KeyNotConfigured)
    /\ pc' = "explained"
    /\ UNCHANGED <<doc, file, verbose, apiKey, now, fileType, issues, suggestions, i,
                   invoked, out, error, fn, runs>>

\* The prompt is built and openai.chat.completions.create(...) is called.
ExplainRequest ==
    /\ pc = "explain" /\ apiKey # "unset"
    /\ out' = Append(out, Event("request", i))
    /\ pc' = "awaiting"
    /\ UNCHANGED <<doc, file, verbose, apiKey, now, fileType, issues, suggestions, i,
                   invoked, explanation, error, fn, runs>>

\* The call ends, and generateExplanation returns.
ApiReturns ==
    /\ pc = "awaiting"
    /\ \E outcome \in OutcomesFor(apiKey) : explanation' = ExplanationOf(outcome)
    /\ pc' = "explained"
    /\ UNCHANGED <<doc, file, verbose, apiKey, now, fileType, issues, suggestions, i,
                   invoked, out, error, fn, runs>>

\* const explanation = await generateExplanation(...); console.log(explanation); i++
\* (an exception out of generateExplanation would leave checkConfig; the constant
\* goes out of scope with the pass of the loop).
PrintExplanation ==
    /\ pc = "explained"
    /\ IF explanation.threw
       THEN /\ pc' = "failed" /\ error' = "Error"
            /\ UNCHANGED <<i, out>>
       ELSE /\ out' = Append(out, Event("explanation", i))
            /\ Advance
            /\ UNCHANGED error
    /\ explanation' = NoExplanation
    /\ UNCHANGED <<doc, file, verbose, apiKey, now, fileType, issues, suggestions,
                   invoked, fn, runs>>

Next ==
    \/ FileNotFound \/ InvalidJson
    \/ DetectTransaction \/ DetectPolicy \/ DetectConfig
    \/ ReportNoIssues \/ ReportIssues
    \/ PrintIssue \/ PrintIssueVerbose
    \/ ExplainNoKey \/ ExplainRequest \/ ApiReturns \/ PrintExplanation

Spec == Init /\ [][Next]_vars

\* ================================================================ claims
\* Vocabulary of the claims. A field is absent when the document has no such key;
\* it is given (set, present, had) when the document gives it a non-empty string,
\* which is what the evaluators' tests !field tell apart among values of the
\* declared type. Claims about "every config" or "every policy" range over
\* documents of the declared types (WellTyped).
Given(v) == IsStr(v) /\ v.s # ""

\* x occurs in the sequence; the number of its occurrences.
Has(seq, x) == \E k \in 1..Len(seq) : seq[k] = x
Count(seq, x) == Cardinality({k \in 1..Len(seq) : seq[k] = x})

\* An evaluator outcome with no finding at all.
Clean == [issues |-> <<>>, suggestions |-> <<>>, threw |-> FALSE]

\* The caller has invoked evaluator f at least once.
Called(f) == fn = f /\ runs # <<>>

\* The document is not of the simplified shape (policyName, effect, condition all there).
Structured(d) == ~(d.policyName # ABSENT /\ d.effect # ABSENT /\ d.condition # ABSENT)

\* ---- C1
C1_Expected(d) ==
    IF d.type = Str("ACTIVITY_TYPE_SIGN_TRANSACTION_V2") THEN "transaction"
    ELSE IF \/ d.required_approvals # ABSENT
            \/ d.signing_keys # ABSENT
            \/ (d.policyName # ABSENT /\ d.effect # ABSENT /\ d.condition # ABSENT)
         THEN "policy"
    ELSE "config"

\* C1: for every parsed document checkConfig invokes exactly one evaluator, the
\* first whose test matches: analyzeTransaction exactly when type equals the
\* sentinel (policy keys or not), else analyzePolicy exactly when required_approvals
\* or signing_keys or all of policyName, effect, condition are there, else
\* analyzeConfig; fileType records the same choice. Nothing is invoked before the
\* document is parsed.
C1_FirstMatchClassification ==
    /\ (file = "ok" /\ pc # "start") =>
         /\ invoked = <<C1_Expected(doc)>>
         /\ (pc # "failed" => fileType = C1_Expected(doc))
    /\ (file # "ok" \/ pc = "start") => invoked = <<>>

\* A transaction request that also carries policy keys has been sent to analyzeTransaction.
C1_Witness ==
    /\ pc = "report"
    /\ doc.type = Str(SignTransactionV2)
    /\ doc.required_approvals # ABSENT /\ doc.policyName # ABSENT
    /\ invoked = <<"transaction">>

\* ---- C2
C2_FullyValid(d) ==
    /\ Given(d.org_id) /\ Given(d.wallet_id)
    /\ IsStr(d.api_public_key)
    /\ StrIncludes(d.api_public_key.s, "TK") /\ Len(d.api_public_key.s) >= 10
    /\ IsStr(d.api_private_key) /\ Len(d.api_private_key.s) >= 20
    /\ IsStr(d.base_url) /\ StartsWith(d.base_url.s, "https://")

\* C2: analyzeConfig on a config with org_id and wallet_id set, api_public_key
\* containing "TK" and at least 10 long, api_private_key at least 20 long and
\* base_url starting with https:// returns no issue and no suggestion.
C2_ValidConfigIsClean ==
    (Called("config") /\ C2_FullyValid(doc)) =>
        \A r \in 1..Len(runs) : runs[r] = Clean

\* analyzeConfig has run on a valid config whose public key has TK past its start.
C2_Witness ==
    /\ Called("config") /\ C2_FullyValid(doc)
    /\ ~StartsWith(doc.api_public_key.s, "TK")

\* ---- C3
ConfigFields == {"org_id", "wallet_id", "api_public_key", "api_private_key", "base_url"}

MissingIssue(f) ==
    CASE f = "org_id" -> "Missing organization ID (org_id)"
      [] f = "wallet_id" -> "Missing wallet ID (wallet_id)"
      [] f = "api_public_key" -> "Missing API public key (api_public_key)"
      [] f = "api_private_key" -> "Missing API private key (api_private_key)"
      [] f = "base_url" -> "Missing base URL (base_url)"

\* In outcome r the issue occurs once, and the suggestion beside it carries the
\* JSON snippet of field f.
ReportedOnceWithFix(r, issue, f) ==
    /\ Count(r.issues, issue) = 1
    /\ \E k \in 1..Len(r.issues) :
         /\ r.issues[k] = issue
         /\ k <= Len(r.suggestions)
         /\ StrIncludes(r.suggestions[k], "\"" \o f \o "\": ")

\* C3: whenever one of org_id, wallet_id, api_public_key, api_private_key, base_url
\* is absent from a config, analyzeConfig reports that field's "Missing ..." issue
\* exactly once, with its suggestion, whatever the other four fields hold; and a
\* config that lacks org_id alone and is valid otherwise yields exactly the issue
\* "Missing organization ID (org_id)" and at least one suggestion.
C3_AbsentFieldReported ==
    (Called("config") /\ WellTyped(doc)) =>
        \A r \in 1..Len(runs) :
            /\ ~runs[r].threw
            /\ \A f \in ConfigFields :
                 doc[f] = ABSENT => ReportedOnceWithFix(runs[r], MissingIssue(f), f)
            /\ (doc.org_id = ABSENT /\ C2_FullyValid([doc EXCEPT !.org_id = Str("test-org")])) =>
                 /\ runs[r].issues = <<"Missing organization ID (org_id)">>
                 /\ Len(runs[r].suggestions) >= 1

\* analyzeConfig has run on a config that lacks both org_id and wallet_id.
C3_Witness ==
    /\ Called("config") /\ WellTyped(doc)
    /\ doc.org_id = ABSENT /\ doc.wallet_id = ABSENT /\ doc.base_url # ABSENT

\* ---- C4
HttpsIssue == "Base URL should use HTTPS for security"

\* base_url with a leading http:// taken off.
C4_Stripped(s) == IF Len(s) >= 7 /\ SubSeq(s, 1, 7) = "http://" THEN SubSeq(s, 8, Len(s)) ELSE s

\* C4: for a config whose base_url is present and does not start with https://,
\* analyzeConfig reports "Base URL should use HTTPS for security", and the
\* suggestion beside it embeds https:// followed by base_url without a leading
\* http://; the issue is not reported when base_url starts with https:// or is absent.
C4_InsecureBaseUrl ==
    (Called("config") /\ WellTyped(doc)) =>
        \A r \in 1..Len(runs) :
            /\ (Given(doc.base_url) /\ ~StartsWith(doc.base_url.s, "https://")) =>
                 /\ Count(runs[r].issues, HttpsIssue) = 1
                 /\ \E k \in 1..Len(runs[r].issues) :
                      /\ runs[r].issues[k] = HttpsIssue
                      /\ k <= Len(runs[r].suggestions)
                      /\ StrIncludes(runs[r].suggestions[k],
                                     "\"base_url\": \"https://" \o C4_Stripped(doc.base_url.s) \o "\"")
            /\ (doc.base_url = ABSENT
                \/ (IsStr(doc.base_url) /\ StartsWith(doc.base_url.s, "https://"))) =>
                 ~Has(runs[r].issues, HttpsIssue)

\* analyzeConfig has run on http://api.turnkey.com and suggested https://api.turnkey.com.
C4_Witness ==
    /\ Called("config")
    /\ doc.base_url = Str("http://api.turnkey.com")
    /\ \E k \in 1..Len(runs[1].suggestions) :
         StrIncludes(runs[1].suggestions[k], "\"base_url\": \"https://api.turnkey.com\"")

\* ---- C5
MissingApprovals == "Missing required_approvals field"
LowApprovals == "required_approvals must be at least 1"

\* C5: on a structured policy analyzePolicy reports "Missing required_approvals
\* field" when required_approvals is missing, "required_approvals must be at least
\* 1" when it is present and below 1, neither when it is 1 or more, and never both.
C5_RequiredApprovals ==
    (Called("policy") /\ WellTyped(doc) /\ Structured(doc)) =>
        \A r \in 1..Len(runs) :
            LET ra == doc.required_approvals
                missing == Has(runs[r].issues, MissingApprovals)
                low == Has(runs[r].issues, LowApprovals)
            IN  /\ ra = ABSENT => missing
                /\ (ra # ABSENT /\ ra.n < 1) => low
                /\ (ra # ABSENT /\ ra.n >= 1) => (~missing /\ ~low)
                /\ ~(missing /\ low)

\* analyzePolicy has run on a structured policy with required_approvals = 0.
C5_Witness ==
    /\ Called("policy") /\ WellTyped(doc) /\ Structured(doc)
    /\ doc.required_approvals = Num(0)
    /\ Has(runs[1].issues, LowApprovals)

\* ---- C6
NoSigningKeys == "No signing keys defined in the policy"

IsKeyIssue(issue) == StartsWith(issue, "Signing key at index ")

\* The per-index issues the claim calls for, for the entries from position k on
\* (position k holds index k - 1).
RECURSIVE C6_Expected(_, _)
C6_Expected(keys, k) ==
    IF k > Len(keys) THEN <<>>
    ELSE (IF Given(Get(keys[k], "key_id")) THEN <<>>
          ELSE <<"Signing key at index " \o ToString(k - 1) \o " is missing key_id">>)
         \o (IF Given(Get(keys[k], "public_key")) THEN <<>>
             ELSE <<"Signing key at index " \o ToString(k - 1) \o " is missing public_key">>)
         \o C6_Expected(keys, k + 1)

\* C6: on a structured policy with a non-empty signing_keys list the per-index
\* issues of analyzePolicy are, in this order, "Signing key at index i is missing
\* key_id" for exactly the entries lacking key_id and "... is missing public_key"
\* for exactly those lacking public_key, by increasing i and key_id first within
\* an entry; when signing_keys is missing or empty "No signing keys defined in the
\* policy" is reported once and no per-index issue is.
C6_SigningKeyIssues ==
    (Called("policy") /\ WellTyped(doc) /\ Structured(doc)) =>
        \A r \in 1..Len(runs) :
            IF IsList(doc.signing_keys) /\ Len(doc.signing_keys.l) > 0
            THEN /\ SelectSeq(runs[r].issues, IsKeyIssue) = C6_Expected(doc.signing_keys.l, 1)
                 /\ ~Has(runs[r].issues, NoSigningKeys)
            ELSE /\ Count(runs[r].issues, NoSigningKeys) = 1
                 /\ SelectSeq(runs[r].issues, IsKeyIssue) = <<>>

\* analyzePolicy has run on two keys, the second lacking both key_id and public_key.
C6_Witness ==
    /\ Called("policy") /\ WellTyped(doc) /\ Structured(doc)
    /\ IsList(doc.signing_keys) /\ Len(doc.signing_keys.l) = 2
    /\ SelectSeq(runs[1].issues, IsKeyIssue) =
         <<"Signing key at index 1 is missing key_id",
           "Signing key at index 1 is missing public_key">>

\* ---- C7
C7_KeyOk(key) == Given(Get(key, "key_id")) /\ Given(Get(key, "public_key"))

C7_Flagged(condition) ==
    \/ StrIncludes(condition, "<SENDER_ADDRESS>")
    \/ /\ StrIncludes(condition, "solana.tx.transfers")
       /\ ~StrIncludes(condition, ".all(")
       /\ ~StrIncludes(condition, ".any(")

C7_ActivityOk(activity) ==
    LET resources == Get(activity, "resources")
        condition == Get(Get(activity, "parameters"), "condition")
    IN  /\ Given(Get(activity, "type"))
        /\ IsList(resources) /\ Len(resources.l) > 0
        /\ Given(condition) => ~C7_Flagged(condition.s)

C7_Signing(activity) ==
    Get(activity, "type") \in {Str("SIGN_WITH_INTENT"), Str("SIGN_TRANSACTION")}

\* The first SIGN_WITH_INTENT / SIGN_TRANSACTION activity, if it is
\* SIGN_WITH_INTENT, has parameters.intent_action.
C7_IntentOk(activities) ==
    \A k \in 1..Len(activities) :
        (/\ Get(activities[k], "type") = Str("SIGN_WITH_INTENT")
         /\ \A j \in 1..(k - 1) : ~C7_Signing(activities[j]))
        => Given(Get(Get(activities[k], "parameters"), "intent_action"))

\* The conditions the claim puts on a policy; those on "every signing key" and
\* "every allowed activity" hold of a missing or empty list.
C7_Conditions(d) ==
    /\ d.required_approvals # ABSENT /\ d.required_approvals.n >= 1
    /\ IsList(d.signing_keys) =>
         \A k \in 1..Len(d.signing_keys.l) : C7_KeyOk(d.signing_keys.l[k])
    /\ IsList(d.allowed_activities) =>
         /\ \A k \in 1..Len(d.allowed_activities.l) : C7_ActivityOk(d.allowed_activities.l[k])
         /\ C7_IntentOk(d.allowed_activities.l)

C7_NonEmptyLists(d) ==
    /\ IsList(d.signing_keys) /\ Len(d.signing_keys.l) > 0
    /\ IsList(d.allowed_activities) /\ Len(d.allowed_activities.l) > 0

\* C7 as stated: every structured policy meeting the claim's conditions gets an
\* empty issue list and an empty suggestion list from analyzePolicy.
C7_AsStated ==
    (Called("policy") /\ WellTyped(doc) /\ Structured(doc) /\ C7_Conditions(doc)) =>
        \A r \in 1..Len(runs) : runs[r] = Clean

\* C7: every structured policy with required_approvals >= 1, a non-empty
\* signing_keys list whose every key has key_id and public_key, a non-empty
\* allowed_activities list whose every activity has a type, non-empty resources and
\* no flagged condition, and whose first SIGN_WITH_INTENT / SIGN_TRANSACTION
\* activity, if it is SIGN_WITH_INTENT, has parameters.intent_action, gets an empty
\* issue list and an empty suggestion list from analyzePolicy.
C7_ValidPolicyIsClean ==
    (/\ Called("policy") /\ WellTyped(doc) /\ Structured(doc)
     /\ C7_Conditions(doc) /\ C7_NonEmptyLists(doc)) =>
        \A r \in 1..Len(runs) : runs[r] = Clean

\* analyzePolicy has run on a policy whose first signing activity is
\* SIGN_TRANSACTION, followed by a SIGN_WITH_INTENT activity without parameters.
C7_Witness ==
    /\ Called("policy") /\ WellTyped(doc) /\ Structured(doc)
    /\ C7_Conditions(doc) /\ C7_NonEmptyLists(doc)
    /\ Len(doc.allowed_activities.l) = 2
    /\ Get(doc.allowed_activities.l[1], "type") = Str("SIGN_TRANSACTION")
    /\ Get(doc.allowed_activities.l[2], "type") = Str("SIGN_WITH_INTENT")
    /\ Get(doc.allowed_activities.l[2], "parameters") = ABSENT
    /\ runs[1] = Clean

\* ---- C8
MissingTimestamp == "Missing timestampMs field"

\* Two outcomes agree but for the suggestion beside the missing-timestampMs issue.
C8_Agree(a, b) ==
    /\ a.threw = b.threw
    /\ a.issues = b.issues
    /\ Len(a.suggestions) = Len(b.suggestions)
    /\ \A k \in 1..Len(a.suggestions) :
         a.suggestions[k] # b.suggestions[k] =>
             /\ fn = "transaction"
             /\ k <= Len(a.issues)
             /\ a.issues[k] = MissingTimestamp

C9_EvaluatorsNeverRaise ==
    (file = "ok") => error # "TypeError"

\* ---- C10
FixedFallbacks == {KeyNotConfigured, UnableToGenerate, FailedToGenerate}

\* C10: whatever the API call does (text, empty response, rejection, malformed
\* body), generateExplanation hands checkConfig a string, the model's text or one
\* of the three fixed fallback strings, and never an exception.
C10_ExplanationNeverThrows ==
    /\ error # "Error"
    /\ pc = "explained" =>
         /\ ~explanation.threw
         /\ explanation.text \in {ModelText} \cup FixedFallbacks

\* The API call was made with a valid key and failed, and generateExplanation
\* returned the failure fallback.
C10_Witness ==
    /\ pc = "explained" /\ apiKey = "valid"
    /\ explanation = Returned(FailedToGenerate)

\* ---- C11
\* An explanation request has been sent to the API during the run.
Requested == \E k \in 1..Len(out) : out[k].ev = "request"

\* C11: when OPENAI_API_KEY is missing or invalid, generateExplanation returns the
\* fixed placeholder and the API call is never attempted.
C11_NoCallWithoutValidKey ==
    apiKey # "valid" =>
        /\ ~Requested
        /\ pc = "explained" => explanation = Returned(KeyNotConfigured)

\* ---- C12
\* The order in which the spec lists the config issues.
C12_Order ==
    <<"Missing organization ID (org_id)",
      "Missing wallet ID (wallet_id)",
      "Missing API public key (api_public_key)",
      "Missing API private key (api_private_key)",
      "Missing base URL (base_url)",
      "API private key appears to be invalid or too short",
      "Base URL should use HTTPS for security",
      "API public key format appears invalid (might cause 401 errors)">>

\* a, from position j on, is a subsequence of b from position k on.
RECURSIVE SubsequenceFrom(_, _, _, _)
SubsequenceFrom(a, j, b, k) ==
    IF j > Len(a) THEN TRUE
    ELSE IF k > Len(b) THEN FALSE
    ELSE IF a[j] = b[k] THEN SubsequenceFrom(a, j + 1, b, k + 1)
    ELSE SubsequenceFrom(a, j, b, k + 1)

\* C12: analyzeConfig emits its issues in the order the spec lists them (the five
\* absence issues, then private key too short, then HTTPS, then public key format):
\* for any config the issue list is a subsequence of that order, with one
\* suggestion beside each issue.
C12_FixedOrder ==
    (Called("config") /\ WellTyped(doc)) =>
        \A r \in 1..Len(runs) :
            /\ SubsequenceFrom(runs[r].issues, 1, C12_Order, 1)
            /\ Len(runs[r].suggestions) = Len(runs[r].issues)

\* ---- C13
\* The issues of the structured policy rules.
IsStructuredIssue(issue) ==
    \/ issue \in {"Missing required_approvals field",
                  "required_approvals must be at least 1",
                  "No signing keys defined in the policy",
                  "No allowed_activities defined in the policy"}
    \/ StartsWith(issue, "Signing key at index ")
    \/ StartsWith(issue, "Allowed activity at index ")
    \/ StartsWith(issue, "Solana policy condition at index ")
    \/ StartsWith(issue, "SIGN_WITH_INTENT activity is missing ")

\* The issues of the simplified policy rules.
IsSimplifiedIssue(issue) ==
    \/ issue \in {"Missing policyName field", "Missing effect field",
                  "Missing condition field",
                  "Condition contains placeholder <SENDER_ADDRESS>",
                  "Solana condition might be missing quantifier (all/any)"}
    \/ StartsWith(issue, "Invalid effect value: ")

\* C13: for every policy document in which policyName, effect and condition are
\* all present, analyzePolicy applies the simplified rules alone: every issue of the
\* result is a simplified-rule issue and none is a structured-rule issue, whether
\* the document also has or lacks required_approvals, signing_keys, allowed_activities.
C13_SimplifiedPrecedence ==
    (Called("policy") /\ ~Structured(doc)) =>
        \A r \in 1..Len(runs) : \A k \in 1..Len(runs[r].issues) :
            /\ IsSimplifiedIssue(runs[r].issues[k])
            /\ ~IsStructuredIssue(runs[r].issues[k])

\* analyzePolicy has run on a document of the simplified shape that also holds
\* required_approvals = 0, and found nothing.
C13_Witness ==
    /\ Called("policy") /\ ~Structured(doc)
    /\ doc.required_approvals = Num(0) /\ doc.signing_keys # ABSENT
    /\ runs[1].issues = <<>> /\ Len(runs[1].suggestions) = 1

\* ---- C14
MissingIntentParameters == "SIGN_WITH_INTENT activity is missing parameters"
MissingIntentAction == "SIGN_WITH_INTENT activity is missing intent_action parameter"

IsIntentIssue(issue) == issue \in {MissingIntentParameters, MissingIntentAction}

\* The position of the first entry whose type is SIGN_WITH_INTENT or
\* SIGN_TRANSACTION; 0 when there is none.
C14_First(activities) ==
    IF \E k \in 1..Len(activities) : C7_Signing(activities[k])
    THEN CHOOSE k \in 1..Len(activities) :
            /\ C7_Signing(activities[k])
            /\ \A j \in 1..(k - 1) : ~C7_Signing(activities[j])
    ELSE 0

\* The intent issues the claim calls for.
C14_Expected(activities) ==
    LET f == C14_First(activities) IN
    IF f = 0 THEN <<>>
    ELSE IF Get(activities[f], "type") # Str("SIGN_WITH_INTENT") THEN <<>>
    ELSE IF Get(activities[f], "parameters") = ABSENT THEN <<MissingIntentParameters>>
    ELSE IF ~Given(Get(Get(activities[f], "parameters"), "intent_action"))
         THEN <<MissingIntentAction>>
    ELSE <<>>

\* C14: on a structured policy the SIGN_WITH_INTENT parameter check looks at the
\* first allowed_activities entry of type SIGN_WITH_INTENT or SIGN_TRANSACTION
\* alone: a SIGN_WITH_INTENT entry yields "missing parameters" when it has none,
\* "missing intent_action parameter" when it has parameters without intent_action,
\* nothing otherwise; a SIGN_TRANSACTION entry, or no such entry, yields nothing,
\* whatever later entries hold. At most one such issue is in a result.
C14_FirstSigningActivityOnly ==
    (Called("policy") /\ WellTyped(doc) /\ Structured(doc)) =>
        \A r \in 1..Len(runs) :
            /\ SelectSeq(runs[r].issues, IsIntentIssue) =
                 C14_Expected(IF IsList(doc.allowed_activities)
                              THEN doc.allowed_activities.l ELSE <<>>)
            /\ Len(SelectSeq(runs[r].issues, IsIntentIssue)) <= 1

\* analyzePolicy has run on a SIGN_WITH_INTENT entry whose parameters lack
\* intent_action, followed by a SIGN_WITH_INTENT entry without parameters, and
\* reported the missing intent_action alone.
C14_Witness ==
    /\ Called("policy") /\ WellTyped(doc) /\ Structured(doc)
    /\ IsList(doc.allowed_activities) /\ Len(doc.allowed_activities.l) = 2
    /\ Get(doc.allowed_activities.l[1], "type") = Str("SIGN_WITH_INTENT")
    /\ Get(doc.allowed_activities.l[1], "parameters") # ABSENT
    /\ Get(doc.allowed_activities.l[2], "type") = Str("SIGN_WITH_INTENT")
    /\ Get(doc.allowed_activities.l[2], "parameters") = ABSENT
    /\ SelectSeq(runs[1].issues, IsIntentIssue) = <<MissingIntentAction>>

\* ---- C15
MissingParameters == "Missing parameters object"

\* The issues of the checks on the members of parameters.
IsSubFieldIssue(issue) ==
    \/ issue \in {"Missing transaction type in parameters",
                  "Missing signWith address in parameters",
                  "Invalid Ethereum address format",
                  "Missing unsignedTransaction in parameters",
                  "Invalid transaction hex format"}
    \/ StartsWith(issue, "Unsupported blockchain type: ")

\* C15: for a transaction request without a parameters object analyzeTransaction
\* reports "Missing parameters object" once and none of the sub-field issues
\* (parameters.type missing or unsupported, signWith missing, Ethereum address
\* invalid, unsignedTransaction missing, hex invalid); with a parameters object it
\* never reports "Missing parameters object".
C15_MissingParametersSkipsSubFields ==
    (Called("transaction") /\ WellTyped(doc)) =>
        \A r \in 1..Len(runs) :
            IF doc.parameters = ABSENT
            THEN /\ Count(runs[r].issues, MissingParameters) = 1
                 /\ SelectSeq(runs[r].issues, IsSubFieldIssue) = <<>>
            ELSE ~Has(runs[r].issues, MissingParameters)

\* analyzeTransaction has run on a signing request without parameters, whose only
\* issue is the missing object.
C15_Witness ==
    /\ Called("transaction") /\ WellTyped(doc)
    /\ doc.parameters = ABSENT /\ doc.type = Str(SignTransactionV2)
    /\ runs[1].issues = <<MissingParameters>>

\* ---- C16
\* The output log records, in order: the call of generateExplanation for issue n
\* (made by the step that prints the "[Detailed Explanation]" header), the API
\* request it sends if any, and the printing of the text it returned.
IsCallEvent(e) == e.ev = "explanation header"
IsApiEvent(e) == e.ev = "request"
IsTextEvent(e) == e.ev = "explanation"

\* The events of the sequence are numbered 1, 2, ... in order.
Counted(events) == \A k \in 1..Len(events) : events[k].n = k

\* The place of an event in the output log.
Pos(ev, n) == CHOOSE p \in 1..Len(out) : out[p] = Event(ev, n)

\* C16: in a verbose run with n >= 1 issues generateExplanation is called once per
\* issue, in issue order, and the call for issue k + 1 is made only after the call
\* for issue k has returned and its text is printed: at most one call is
\* outstanding, every API request lies between its call and the printing of its
\* text, and a finished run has made exactly n calls (and n API requests when a
\* key is set). A run that is not verbose, or has no issue, makes none.
C16_SequentialEnrichment ==
    LET calls == SelectSeq(out, IsCallEvent)
        api == SelectSeq(out, IsApiEvent)
        texts == SelectSeq(out, IsTextEvent)
    IN  /\ Counted(calls) /\ Counted(texts)
        /\ Len(texts) <= Len(calls) /\ Len(calls) <= Len(texts) + 1
        /\ Len(calls) <= Len(issues)
        /\ \A k \in 1..Len(texts) : Pos("explanation header", k) < Pos("explanation", k)
        /\ \A k \in 2..Len(calls) : Pos("explanation", k - 1) < Pos("explanation header", k)
        /\ \A k \in 1..Len(api) :
             /\ api[k].n \in 1..Len(calls)
             /\ \A j \in 1..Len(api) : api[j].n = api[k].n => j = k
             /\ Pos("explanation header", api[k].n) < Pos("request", api[k].n)
             /\ api[k].n <= Len(texts) => Pos("request", api[k].n) < Pos("explanation", api[k].n)
        /\ (~verbose \/ Len(issues) = 0) => (calls = <<>> /\ api = <<>> /\ texts = <<>>)
        /\ apiKey = "unset" => api = <<>>
        /\ (pc = "done" /\ verbose /\ Len(issues) >= 1) =>
             /\ Len(calls) = Len(issues) /\ Len(texts) = Len(issues)
             /\ apiKey # "unset" => (Counted(api) /\ Len(api) = Len(issues))

\* A verbose run with a key set and at least two issues has finished, having sent
\* one API request per issue.
C16_Witness ==
    /\ pc = "done" /\ verbose /\ apiKey = "valid"
    /\ Len(issues) >= 2
    /\ Len(SelectSeq(out, IsApiEvent)) = Len(issues)
    /\ Len(SelectSeq(out, IsTextEvent)) = Len(issues)

\* ---- C17
\* The array indices an issue text may carry.
Indices == 0..(MaxKeys + MaxActivities)

\* The issue names entry n of a list, and the suggestion names the same entry.
PairedAt(issue, suggestion, issueHead, issueTail, suggestionHead) ==
    \E n \in Indices :
        /\ issue = issueHead \o ToString(n) \o issueTail
        /\ StartsWith(suggestion, suggestionHead \o ToString(n) \o ":")

\* The suggestion is the one the source pushes with the issue.
Paired(issue, suggestion) ==
    \/ issue = "Missing organization ID (org_id)"
         /\ StartsWith(suggestion, "Add your Turnkey organization ID to the configuration")
    \/ issue = "Missing wallet ID (wallet_id)"
         /\ StartsWith(suggestion, "Add your Turnkey wallet ID")
    \/ issue = "Missing API public key (api_public_key)"
         /\ StartsWith(suggestion, "Add your Turnkey API public key")
    \/ issue = "Missing API private key (api_private_key)"
         /\ StartsWith(suggestion, "Add your Turnkey API private key")
    \/ issue = "API private key appears to be invalid or too short"
         /\ StartsWith(suggestion, "Ensure your API private key")
    \/ issue = "Missing base URL (base_url)"
         /\ StartsWith(suggestion, "Add the Turnkey API base URL")
    \/ issue = "Base URL should use HTTPS for security"
         /\ StartsWith(suggestion, "Update the base URL to use HTTPS")
    \/ issue = "API public key format appears invalid (might cause 401 errors)"
         /\ StartsWith(suggestion, "Ensure your API public key")
    \/ issue = "Missing policyName field"
         /\ StartsWith(suggestion, "Add a descriptive policy name")
    \/ issue = "Missing effect field"
         /\ StartsWith(suggestion, "Add the effect field")
    \/ StartsWith(issue, "Invalid effect value: ")
         /\ StartsWith(suggestion, "Use either \"EFFECT_ALLOW\" or \"EFFECT_DENY\"")
    \/ issue = "Missing condition field"
         /\ StartsWith(suggestion, "Add a condition expression")
    \/ issue = "Condition contains placeholder <SENDER_ADDRESS>"
         /\ StartsWith(suggestion, "Replace <SENDER_ADDRESS>")
    \/ issue = "Solana condition might be missing quantifier (all/any)"
         /\ StartsWith(suggestion, "Consider using \"all\" or \"any\"")
    \/ issue = "Missing required_approvals field"
         /\ StartsWith(suggestion, "Add the required_approvals field")
    \/ issue = "required_approvals must be at least 1"
         /\ StartsWith(suggestion, "Update required_approvals")
    \/ issue = "No signing keys defined in the policy"
         /\ StartsWith(suggestion, "Add at least one signing key")
    \/ PairedAt(issue, suggestion, "Signing key at index ", " is missing key_id",
                "Add key_id to the signing key at index ")
    \/ PairedAt(issue, suggestion, "Signing key at index ", " is missing public_key",
                "Add public_key to the signing key at index ")
    \/ issue = "No allowed_activities defined in the policy"
         /\ StartsWith(suggestion, "Add allowed_activities")
    \/ PairedAt(issue, suggestion, "Allowed activity at index ", " is missing type",
                "Add type to the allowed activity at index ")
    \/ PairedAt(issue, suggestion, "Allowed activity at index ", " has no resources defined",
                "Add resources to the allowed activity at index ")
    \/ (\E n \in Indices : issue = "Solana policy condition at index " \o ToString(n)
                                   \o " contains placeholder '<SENDER_ADDRESS>'")
         /\ StartsWith(suggestion, "Replace '<SENDER_ADDRESS>'")
    \/ (\E n \in Indices : issue = "Solana policy condition at index " \o ToString(n)
                                   \o " might be missing quantifier (all/any)")
         /\ StartsWith(suggestion, "Consider using 'all' or 'any'")
    \/ issue = "SIGN_WITH_INTENT activity is missing parameters"
         /\ StartsWith(suggestion, "Add parameters to the SIGN_WITH_INTENT activity")
    \/ issue = "SIGN_WITH_INTENT activity is missing intent_action parameter"
         /\ StartsWith(suggestion, "Add intent_action parameter")
    \/ issue = "Missing organizationId field"
         /\ StartsWith(suggestion, "Add your Turnkey organization ID to the request")
    \/ issue = "Missing type field"
         /\ StartsWith(suggestion, "Add the activity type")
    \/ StartsWith(issue, "Unsupported transaction type: ")
         /\ StartsWith(suggestion, "Use \"ACTIVITY_TYPE_SIGN_TRANSACTION_V2\"")
    \/ issue = "Missing timestampMs field"
         /\ StartsWith(suggestion, "Add a current timestamp")
    \/ issue = "Missing parameters object"
         /\ StartsWith(suggestion, "Add the parameters object")
    \/ issue = "Missing transaction type in parameters"
         /\ StartsWith(suggestion, "Add the transaction type")
    \/ StartsWith(issue, "Unsupported blockchain type: ")
         /\ StartsWith(suggestion, "Use one of the supported blockchain types: ")
    \/ issue = "Missing signWith address in parameters"
         /\ StartsWith(suggestion, "Add the address to sign with")
    \/ issue = "Invalid Ethereum address format"
         /\ StartsWith(suggestion, "Ethereum addresses should")
    \/ issue = "Missing unsignedTransaction in parameters"
         /\ StartsWith(suggestion, "Add the unsigned transaction hex")
    \/ issue = "Invalid transaction hex format"
         /\ StartsWith(suggestion, "Transaction hex should")

\* The informational suggestion of a document without issue.
IsSynthesized(suggestion) ==
    \/ StartsWith(suggestion, "Your policy looks valid!")
    \/ StartsWith(suggestion, "Your transaction signing request looks valid!")

\* C17: in every result an evaluator returns, a non-empty issue list comes with a
\* suggestion list of the same length whose entry i is the suggestion pushed with
\* issue i; an empty issue list comes with an empty suggestion list from
\* analyzeConfig and the structured policy rules, and with exactly the one
\* synthesized suggestion from the simplified policy rules and analyzeTransaction.
\* The synthesized suggestion is in the result if and only if no issue is.
C17_Alignment ==
    \A r \in 1..Len(runs) :
        ~runs[r].threw =>
            LET is == runs[r].issues
                ss == runs[r].suggestions
            IN  /\ is # <<>> =>
                     /\ Len(ss) = Len(is)
                     /\ \A k \in 1..Len(is) : Paired(is[k], ss[k])
                /\ (is = <<>> /\ (fn = "config" \/ (fn = "policy" /\ Structured(doc)))) =>
                     ss = <<>>
                /\ (is = <<>> /\ (fn = "transaction" \/ (fn = "policy" /\ ~Structured(doc)))) =>
                     (Len(ss) = 1 /\ IsSynthesized(ss[1]))
                /\ (\E k \in 1..Len(ss) : IsSynthesized(ss[k])) <=> (is = <<>> /\ ss # <<>>)

\* analyzeTransaction has returned at least three issues, each with its suggestion.
C17_Witness ==
    /\ Called("transaction") /\ ~runs[1].threw
    /\ Len(runs[1].issues) >= 3
    /\ Len(runs[1].suggestions) = Len(runs[1].issues)
    /\ Has(runs[1].issues, "Unsupported transaction type: ACTIVITY_TYPE_SIGN_RAW_PAYLOAD")

\* ---- C18
IsTypeIssue(issue) ==
    issue = "Missing type field" \/ StartsWith(issue, "Unsupported transaction type: ")

\* C18: checkConfig invokes analyzeTransaction only on a document whose type equals
\* "ACTIVITY_TYPE_SIGN_TRANSACTION_V2", so the issue list of a run never holds
\* "Missing type field" or "Unsupported transaction type: ..."; a parsed document
\* whose type is missing or different goes to the policy or the config rules.
C18_TypeIssuesUnreachable ==
    /\ Has(invoked, "transaction") => doc.type = Str("ACTIVITY_TYPE_SIGN_TRANSACTION_V2")
    /\ \A k \in 1..Len(issues) : ~IsTypeIssue(issues[k])
    /\ (file = "ok" /\ pc # "start" /\ doc.type # Str("ACTIVITY_TYPE_SIGN_TRANSACTION_V2")) =>
         invoked \in {<<"policy">>, <<"config">>}

\* A signing request of another activity type has gone through the config rules,
\* which found issues.
C18_Witness ==
    /\ pc = "loop" /\ invoked = <<"config">>
    /\ doc.type = Str("ACTIVITY_TYPE_SIGN_RAW_PAYLOAD")
    /\ doc.organizationId # ABSENT /\ doc.parameters # ABSENT
    /\ Has(issues, "Missing organization ID (org_id)")

====
